---- MODULE Spec2Model ----
(***************************************************************************)
(* Verification model of binderhub/build.py: the Kubernetes build executor *)
(* (submit / watch loop / cleanup / stop), the log streamer and the        *)
(* periodic cleaner of build pods.                                         *)
(*                                                                         *)
(* Two executors share one build name, as two requests for the same        *)
(* (repo_url, ref) do; the cleaner and the kubelet act on the same pod.    *)
(***************************************************************************)
EXTENDS Integers, Sequences, FiniteSets, TLC

\* The executors that share one BuildName (KubernetesBuildExecutor objects).
Execs == {"e1", "e2"}

\* Pod phases the cluster reports; "Evicted" is the value the cleaner also
\* tests for and that submit() does not recognise.
Phases == {"Pending", "Running", "Succeeded", "Failed", "Unknown", "Evicted"}

\* ProgressEvent.BuildStatus
PENDING == "pending"
RUNNING == "running"
BUILT   == "built"
FAILED  == "failed"
UNKNOWN == "unknown"

Terminal == {BUILT, FAILED}

VARIABLES
    pods,        \* the build pods in the namespace carrying the name
    nextUid,     \* uid the API server gives the next created pod
    pc,          \* pc[e]: where executor e is inside submit()
    stop_event,  \* stop_event[e]: the threading.Event of executor e
    pod,         \* pod[e]: phase of self.pod, "none" before any watch event
    stream,      \* stream[e]: events of the open watch not yet iterated
    emitted,     \* emitted[e]: statuses handed to progress(), in order, a
                 \* status repeated in a row written once
    terminals,   \* terminals[e]: how many BUILT or FAILED were handed to progress()
    called,      \* called[e]: the API calls submit() of e made, with their answers
    early        \* the pod changed or went before every executor had submitted

kvars == <<pods, nextUid, pc, stop_event, pod, stream, emitted, terminals,
           called, early>>

\* KubernetesCleaner.cleanup: one sweep over a namespace.
VARIABLES
    builds,      \* the build pods of the namespace, as list_namespaced_pod gives them
    max_age,     \* the configured max_age
    start_cutoff,\* now - max_age of the sweep; 0 before it is computed
    live,        \* indexes of the listed pods that still exist in the cluster
    gpc,         \* "list", "loop", "done" or "raised"
    gi,          \* index in builds of the pod the loop visits next
    issued,      \* indexes of the pods the sweep called delete for
    answered     \* the API calls of the sweep with their answers; the list
                 \* call has index 0, the delete of builds[i] index i

gvars == <<builds, max_age, start_cutoff, live, gpc, gi, issued, answered>>

\* KubernetesBuildExecutor.stream_logs: one call on one pod log.
VARIABLES
    logsrc,      \* lines read_namespaced_pod_log has still to yield
    lpc,         \* "iter", "returned" or "raised"
    lstop,       \* the stop event of the executor that streams
    logq,        \* events handed to progress(), in order
    lread        \* the lines read so far with the stop event not set

lvars == <<logsrc, lpc, lstop, logq, lread>>

\* KubernetesBuildExecutor.get_affinity: one call.
VARIABLES
    sticky_builds,      \* the sticky_builds setting of the executor
    repo_url,           \* the repo_url of the executor
    image_builder_pods, \* the parsed answer of list_namespaced_pod
    apc,                \* "idle", "call", "returned" or "raised"
    affinity            \* the V1Affinity returned, "none" before

avars == <<sticky_builds, repo_url, image_builder_pods, apc, affinity>>

\* BuildExecutor.get_cmd: one call.
VARIABLES
    push_secret,            \* the push_secret setting, "" by default
    registry_credentials,   \* the registry_credentials setting, a dict
    memory_limit,           \* the memory_limit setting in bytes, 0 by default
    appendix,               \* the appendix setting, "" by default
    repo2docker_extra_args, \* the repo2docker_extra_args setting, a list
    cpc,                    \* "idle", "call" or "returned"
    cmd                     \* the list get_cmd() returned, <<>> before

cvars == <<push_secret, registry_credentials, memory_limit, appendix,
           repo2docker_extra_args, cpc, cmd>>

\* BuildExecutor.progress: submit() and stream_logs() of one build, each in
\* its thread, and the main loop that runs the callbacks they add.
VARIABLES
    wsrc,        \* events the watch of submit() has still to deliver
    wq,          \* events submit() handed to progress(), in order
    callbacks,   \* callbacks added to main_loop and not yet run, oldest first
    self_q       \* the events put into self.q, oldest first

pvars == <<wsrc, wq, callbacks, self_q>>

vars == <<kvars, gvars, lvars, avars, cvars, pvars>>

----------------------------------------------------------------------------
(* The cluster as the code sees it                                         *)

\* Phase changes the kubelet reports for a pod.
PhaseAfter(p) ==
    CASE p = "Pending" -> {"Running", "Unknown"}
      [] p = "Running" -> {"Succeeded", "Failed", "Evicted"}
      [] p = "Unknown" -> {"Failed"}
      [] OTHER         -> {}

\* Every executor has called create_namespaced_pod.
BothSubmitted == \A e \in Execs : pc[e] # "create"

\* The mark the API server puts at the end of a watch whose timeout_seconds
\* expired: the response ends there and nothing follows it.
END == [type |-> "END", phase |-> "none"]

\* The API server has ended the watch whose undelivered events are `events`.
Expired(events) == events # <<>> /\ events[Len(events)] = END

\* A watch is open for e: it sits in the for loop of w.stream() and the
\* API server still feeds the response.
Watching(e) == pc[e] = "watch" /\ ~Expired(stream[e])

WatchEvent(t, p) == [type |-> t, phase |-> p.phase]

\* The API server sends a change to every open watch on the name.
Notify(ev) ==
    [e \in Execs |-> IF Watching(e) THEN Append(stream[e], ev) ELSE stream[e]]

\* Events a fresh watch starts with: ADDED for each pod that exists.
InitialEvents ==
    IF pods = {} THEN <<>>
    ELSE LET p == CHOOSE q \in pods : TRUE IN <<WatchEvent("ADDED", p)>>

\* The record of statuses after one more is handed to progress().
Progress(e, status) ==
    [emitted EXCEPT ![e] =
        IF @ # <<>> /\ @[Len(@)] = status THEN @ ELSE Append(@, status)]

\* The count of terminal statuses after `status` is handed to progress().
Counted(e, status) ==
    [terminals EXCEPT ![e] = IF status \in Terminal THEN @ + 1 ELSE @]

\* Note an API call `op` of submit() of e and the status it was answered with.
Called(e, op, status) ==
    [called EXCEPT ![e] = @ \cup {[op |-> op, status |-> status]}]

----------------------------------------------------------------------------
(* KubernetesBuildExecutor.submit                                          *)

\* create_namespaced_pod: the statuses the API server can answer with; the
\* name is taken (409) exactly when a pod carries it.
CreateStatuses == IF pods = {} THEN {201, 500} ELSE {409, 500}

\* As CreateRaises, with the 409 branch of line 577 lost.
CreateRaises_No409(status) == status # 201

\* Lines 576-582: whether a create answered `status` makes submit() raise.
CreateRaises(status) == status # 201 /\ status # 409

\* Lines 570-586: the one create call of submit().
Create(e) ==
    /\ pc[e] = "create"
    /\ \E status \in CreateStatuses :
         /\ called' = Called(e, "create", status)
         /\ pc' = [pc EXCEPT ![e] = IF CreateRaises(status) THEN "raised" ELSE "loop"]
         /\ IF status = 201
            THEN LET p == [uid |-> nextUid, phase |-> "Pending"] IN
                   /\ pods' = pods \cup {p}
                   /\ stream' = Notify(WatchEvent("ADDED", p))
                   /\ nextUid' = nextUid + 1
            ELSE UNCHANGED <<pods, stream, nextUid>>
    /\ UNCHANGED <<stop_event, pod, emitted, terminals, early>>
    /\ UNCHANGED <<gvars, lvars, avars, cvars, pvars>>

\* As StatusOfPhase, with BUILT reported as soon as Succeeded is seen.
StatusOfPhase_BuiltEarly(phase) ==
    CASE phase = "Pending"   -> PENDING
      [] phase = "Running"   -> RUNNING
      [] phase = "Succeeded" -> BUILT
      [] phase = "Failed"    -> FAILED
      [] phase = "Unknown"   -> UNKNOWN
      [] OTHER               -> "none"

\* The status submit() reports for the phase of a non-DELETED event
\* (lines 620-649); "none" when nothing is reported.
StatusOfPhase(phase) ==
    CASE phase = "Pending"   -> PENDING
      [] phase = "Running"   -> RUNNING
      [] phase = "Succeeded" -> "none"
      [] phase = "Failed"    -> FAILED
      [] phase = "Unknown"   -> UNKNOWN
      [] OTHER               -> "none"

\* As StatusOfDeleted, with the test of line 604 lost.
StatusOfDeleted_NoTest(phase) == FAILED

\* The status reported for a DELETED event (lines 604-613).
StatusOfDeleted(phase) == IF phase = "Succeeded" THEN BUILT ELSE FAILED

\* Lines 651-654: the phases after which submit() calls cleanup().
NeedsCleanup(phase) == phase = "Succeeded" \/ phase = "Failed"

\* As is_set, with the flag never seen set at the head of the loop.
is_set_Never(e) == FALSE

\* self.stop_event.is_set() as lines 587 and 660 read it.
is_set(e) == stop_event[e]

\* Lines 587 and 660-662: with the stop event set submit() returns, both
\* after a watch that ended and before the next one; otherwise a new watch
\* is opened (lines 588-596).
LoopCheck(e) ==
    /\ pc[e] = "loop"
    /\ IF is_set(e)
       THEN /\ pc' = [pc EXCEPT ![e] = "returned"]
            /\ UNCHANGED <<stream, called>>
       ELSE /\ pc' = [pc EXCEPT ![e] = "watch"]
            /\ stream' = [stream EXCEPT ![e] = InitialEvents]
            /\ called' = Called(e, "watch", 200)
    /\ UNCHANGED <<pods, nextUid, stop_event, pod, emitted, terminals, early>>
    /\ UNCHANGED <<gvars, lvars, avars, cvars, pvars>>

\* delete_namespaced_pod: the statuses the API server can answer with.
DeleteStatuses == IF pods = {} THEN {404, 500} ELSE {200, 500}

\* As CleanupRaises, with the 404 branch of line 714 lost.
CleanupRaises_No404(status) == status # 200

\* cleanup(), lines 713-718: whether a delete answered `status` raises.
CleanupRaises(status) == status # 200 /\ status # 404

\* The streams after e took the head of its own and the API server then
\* deleted the pods in `gone`.
AfterDelete(e, gone) ==
    LET mine == [stream EXCEPT ![e] = Tail(@)] IN
      IF gone = {} THEN mine
      ELSE LET ev == WatchEvent("DELETED", CHOOSE q \in gone : TRUE) IN
             [x \in Execs |->
                IF pc[x] = "watch" /\ ~Expired(mine[x])
                THEN Append(mine[x], ev) ELSE mine[x]]

\* One iteration of `for f in w.stream(...)`, lines 597-654, the call of
\* cleanup() (lines 702-718) included.  progress() comes before cleanup().
Dispatch(e) ==
    /\ pc[e] = "watch"
    /\ stream[e] # <<>>
    /\ Head(stream[e]) # END
    /\ LET f == Head(stream[e]) IN
         IF f.type = "DELETED"
         THEN /\ emitted' = Progress(e, StatusOfDeleted(f.phase))
              /\ terminals' = Counted(e, StatusOfDeleted(f.phase))
              /\ pc' = [pc EXCEPT ![e] = "returned"]
              /\ stream' = [stream EXCEPT ![e] = <<>>]
              /\ UNCHANGED <<pods, pod, called, early>>
         ELSE /\ pod' = [pod EXCEPT ![e] = f.phase]
              /\ IF ~stop_event[e] /\ StatusOfPhase(f.phase) # "none"
                 THEN /\ emitted' = Progress(e, StatusOfPhase(f.phase))
                      /\ terminals' = Counted(e, StatusOfPhase(f.phase))
                 ELSE UNCHANGED <<emitted, terminals>>
              /\ IF NeedsCleanup(f.phase)
                 THEN \E status \in DeleteStatuses :
                        /\ called' = Called(e, "delete", status)
                        /\ pods' = IF status = 200 THEN {} ELSE pods
                        /\ early' = (early \/ (status = 200 /\ ~BothSubmitted))
                        /\ IF CleanupRaises(status)
                           THEN /\ pc' = [pc EXCEPT ![e] = "raised"]
                                /\ stream' = [stream EXCEPT ![e] = <<>>]
                           ELSE /\ UNCHANGED pc
                                /\ stream' = AfterDelete(e, pods \ pods')
                 ELSE /\ stream' = [stream EXCEPT ![e] = Tail(@)]
                      /\ UNCHANGED <<pods, pc, called, early>>
    /\ UNCHANGED <<nextUid, stop_event>>
    /\ UNCHANGED <<gvars, lvars, avars, cvars, pvars>>

\* timeout_seconds=30, line 594: the watch ends in a quiet moment, with
\* every event read: the for loop is left.
WatchTimeout(e) ==
    /\ pc[e] = "watch"
    /\ stream[e] = <<>>
    /\ pc' = [pc EXCEPT ![e] = "loop"]
    /\ UNCHANGED <<pods, nextUid, stop_event, pod, stream, emitted, terminals, called, early>>
    /\ UNCHANGED <<gvars, lvars, avars, cvars, pvars>>

\* timeout_seconds=30, line 594: the API server ends the watch while events
\* it sent are still unread; they are still read, what happens from now on
\* is not sent.
WatchExpire(e) ==
    /\ Watching(e)
    /\ stream[e] # <<>>
    /\ stream' = [stream EXCEPT ![e] = Append(@, END)]
    /\ UNCHANGED <<pods, nextUid, pc, stop_event, pod, emitted, terminals, called, early>>
    /\ UNCHANGED <<gvars, lvars, avars, cvars, pvars>>

\* The response of the watch is read to its end: the for loop is left
\* (lines 590-596, then 658-660).
WatchEnd(e) ==
    /\ pc[e] = "watch"
    /\ stream[e] # <<>>
    /\ Head(stream[e]) = END
    /\ pc' = [pc EXCEPT ![e] = "loop"]
    /\ stream' = [stream EXCEPT ![e] = <<>>]
    /\ UNCHANGED <<pods, nextUid, stop_event, pod, emitted, terminals, called, early>>
    /\ UNCHANGED <<gvars, lvars, avars, cvars, pvars>>

\* As OnWatchError, with the error swallowed and the while loop going on.
OnWatchError_Retry == "loop"

\* As OnWatchError, with submit() started over after the error.
OnWatchError_Recreate == "create"

\* Lines 655-657: where submit() is after the watch raised: `raise`.
OnWatchError == "raised"

\* The watch raises: lines 655-659 log, stop the watch and re-raise.
WatchError(e) ==
    /\ pc[e] = "watch"
    /\ pc' = [pc EXCEPT ![e] = OnWatchError]
    /\ stream' = [stream EXCEPT ![e] = <<>>]
    /\ UNCHANGED <<pods, nextUid, stop_event, pod, emitted, terminals, called, early>>
    /\ UNCHANGED <<gvars, lvars, avars, cvars, pvars>>

\* As StopSet, with set() taken for a switch that flips the flag.
StopSet_Flip(flag) == ~flag

\* threading.Event.set(), line 219: the flag after stop(), given the flag
\* before it.
StopSet(flag) == TRUE

\* BuildExecutor.stop
Stop(e) ==
    /\ stop_event' = [stop_event EXCEPT ![e] = StopSet(@)]
    /\ UNCHANGED <<pods, nextUid, pc, pod, stream, emitted, terminals, called, early>>
    /\ UNCHANGED <<gvars, lvars, avars, cvars, pvars>>

----------------------------------------------------------------------------
(* The environment: kubelet and cleaner                                    *)

\* The kubelet reports a new phase of the pod.
PodPhase ==
    /\ \E p \in pods : \E ph \in PhaseAfter(p.phase) :
         LET q == [p EXCEPT !.phase = ph] IN
           /\ pods' = (pods \ {p}) \cup {q}
           /\ stream' = Notify(WatchEvent("MODIFIED", q))
    /\ early' = (early \/ ~BothSubmitted)
    /\ UNCHANGED <<nextUid, pc, stop_event, pod, emitted, terminals, called>>
    /\ UNCHANGED <<gvars, lvars, avars, cvars, pvars>>

\* Values of max_age the cleaner is configured with, and the clock of a sweep.
MaxAges == {-1, 0, 2}
SweepNow == {5}

\* status.start_time of a listed pod: <<t>>, or <<>> for None (not started).
StartTimes == {<<>>, <<1>>, <<3>>, <<4>>}

\* KubernetesCleaner.cleanup, lines 765-785: whether a listed pod is deleted.
ShouldDelete(phase, age, started, cutoff) ==
    IF phase \in {"Failed", "Succeeded", "Evicted"}
    THEN TRUE
    ELSE age # 0 /\ started # <<>> /\ started[1] < cutoff

\* One sweep of the cleaner over the namespace: the pod carrying the name
\* is listed and, when selected, deleted.
CleanerSweep ==
    /\ \E p \in pods, age \in MaxAges, started \in StartTimes, now \in SweepNow :
         /\ ShouldDelete(p.phase, age, started, now - age)
         /\ pods' = pods \ {p}
         /\ stream' = Notify(WatchEvent("DELETED", p))
    /\ early' = (early \/ ~BothSubmitted)
    /\ UNCHANGED <<nextUid, pc, stop_event, pod, emitted, terminals, called>>
    /\ UNCHANGED <<gvars, lvars, avars, cvars, pvars>>

----------------------------------------------------------------------------
\* The executors are constructed and submit() is entered; no sweep of the
\* cleaner and no stream_logs() call is looked at.
Init ==
    /\ pods = {}
    /\ nextUid = 1
    /\ pc = [e \in Execs |-> "create"]
    /\ stop_event = [e \in Execs |-> FALSE]
    /\ pod = [e \in Execs |-> "none"]
    /\ stream = [e \in Execs |-> <<>>]
    /\ emitted = [e \in Execs |-> <<>>]
    /\ terminals = [e \in Execs |-> 0]
    /\ called = [e \in Execs |-> {}]
    /\ early = FALSE
    /\ builds = <<>> /\ max_age = 0 /\ start_cutoff = 0 /\ live = {}
    /\ gpc = "done" /\ gi = 1 /\ issued = {} /\ answered = {}
    /\ logsrc = <<>> /\ lpc = "returned" /\ lstop = FALSE
    /\ logq = <<>> /\ lread = <<>>
    /\ sticky_builds = FALSE /\ repo_url = "r1" /\ apc = "idle"
    /\ image_builder_pods = [kind |-> "PodList", items |-> <<>>]
    /\ affinity = "none"
    /\ push_secret = "" /\ registry_credentials = <<>> /\ memory_limit = 0
    /\ appendix = "" /\ repo2docker_extra_args = <<>>
    /\ cpc = "idle" /\ cmd = <<>>
    /\ wsrc = <<>> /\ wq = <<>> /\ callbacks = <<>> /\ self_q = <<>>

Next ==
    \/ \E e \in Execs :
         \/ Create(e)
         \/ LoopCheck(e)
         \/ Dispatch(e)
         \/ WatchTimeout(e)
         \/ WatchError(e)
         \/ Stop(e)
    \/ PodPhase
    \/ CleanerSweep

Spec == Init /\ [][Next]_vars

----------------------------------------------------------------------------
(* KubernetesCleaner.cleanup: one sweep                                    *)

\* Most pods a listed namespace holds.
MaxBuilds == 2

\* A pod as the sweep reads it: status.phase and status.start_time.
ListedPods == [phase : Phases \ {"Unknown"}, start_time : StartTimes]

SeqsUpTo(S, n) == UNION {[1..k -> S] : k \in 0..n}

\* The cleaner is constructed and cleanup() is entered on some namespace;
\* no executor runs and no stream_logs() call is looked at.
InitSweep ==
    /\ builds \in SeqsUpTo(ListedPods, MaxBuilds)
    /\ max_age \in MaxAges
    /\ start_cutoff = 0
    /\ live = DOMAIN builds
    /\ gpc = "list"
    /\ gi = 1
    /\ issued = {}
    /\ answered = {}
    /\ pods = {} /\ nextUid = 1 /\ early = FALSE
    /\ pc = [e \in Execs |-> "returned"]
    /\ stop_event = [e \in Execs |-> FALSE]
    /\ pod = [e \in Execs |-> "none"]
    /\ stream = [e \in Execs |-> <<>>]
    /\ emitted = [e \in Execs |-> <<>>]
    /\ terminals = [e \in Execs |-> 0]
    /\ called = [e \in Execs |-> {}]
    /\ logsrc = <<>> /\ lpc = "returned" /\ lstop = FALSE
    /\ logq = <<>> /\ lread = <<>>
    /\ sticky_builds = FALSE /\ repo_url = "r1" /\ apc = "idle"
    /\ image_builder_pods = [kind |-> "PodList", items |-> <<>>]
    /\ affinity = "none"
    /\ push_secret = "" /\ registry_credentials = <<>> /\ memory_limit = 0
    /\ appendix = "" /\ repo2docker_extra_args = <<>>
    /\ cpc = "idle" /\ cmd = <<>>
    /\ wsrc = <<>> /\ wq = <<>> /\ callbacks = <<>> /\ self_q = <<>>

\* Lines 751-759: list the build pods and compute the cutoff.
SweepList ==
    /\ gpc = "list"
    /\ \E status \in {200, 500}, now \in SweepNow :
         /\ answered' = answered \cup {[i |-> 0, status |-> status]}
         /\ IF status = 200
            THEN gpc' = "loop" /\ start_cutoff' = now - max_age
            ELSE gpc' = "raised" /\ UNCHANGED start_cutoff
    /\ UNCHANGED <<builds, max_age, live, gi, issued>>
    /\ UNCHANGED <<kvars, lvars, avars, cvars, pvars>>

\* As SweepRaises, with the 404 branch of line 796 lost.
SweepRaises_No404(status) == status # 200

\* Lines 795-800: whether a delete answered `status` ends the sweep.
SweepRaises(status) == status # 200 /\ status # 404

\* Lines 760-800: one turn of the loop over the listed pods.
SweepVisit ==
    /\ gpc = "loop"
    /\ gi <= Len(builds)
    /\ LET build == builds[gi] IN
         IF ShouldDelete(build.phase, max_age, build.start_time, start_cutoff)
         THEN \E status \in (IF gi \in live THEN {200, 500} ELSE {404, 500}) :
                /\ issued' = issued \cup {gi}
                /\ answered' = answered \cup {[i |-> gi, status |-> status]}
                /\ live' = IF status = 200 THEN live \ {gi} ELSE live
                /\ IF SweepRaises(status)
                   THEN gpc' = "raised" /\ UNCHANGED gi
                   ELSE gi' = gi + 1 /\ UNCHANGED gpc
         ELSE /\ gi' = gi + 1
              /\ UNCHANGED <<issued, answered, live, gpc>>
    /\ UNCHANGED <<builds, max_age, start_cutoff>>
    /\ UNCHANGED <<kvars, lvars, avars, cvars, pvars>>

\* Lines 802-806: the loop is over, the sweep logs its summary.
SweepDone ==
    /\ gpc = "loop"
    /\ gi > Len(builds)
    /\ gpc' = "done"
    /\ UNCHANGED <<builds, max_age, start_cutoff, live, gi, issued, answered>>
    /\ UNCHANGED <<kvars, lvars, avars, cvars, pvars>>

\* An executor's cleanup() deletes a listed pod while the sweep runs.
OtherDelete ==
    /\ gpc = "loop"
    /\ \E i \in live : live' = live \ {i}
    /\ UNCHANGED <<builds, max_age, start_cutoff, gpc, gi, issued, answered>>
    /\ UNCHANGED <<kvars, lvars, avars, cvars, pvars>>

NextSweep == SweepList \/ SweepVisit \/ SweepDone \/ OtherDelete

SpecSweep == InitSweep /\ [][NextSweep]_vars

----------------------------------------------------------------------------
(* KubernetesBuildExecutor.stream_logs                                     *)

\* Most lines one pod log yields.
MaxLines == 3

\* The line `{"phase": "unknown", "message": "x"}` as repo2docker writes
\* it with --json-logs, in bytes.
StructuredLine ==
    <<123, 34, 112, 104, 97, 115, 101, 34, 58, 32, 34, 117, 110, 107,
      110, 111, 119, 110, 34, 44, 32, 34, 109, 101, 115, 115, 97, 103,
      101, 34, 58, 32, 34, 120, 34, 125, 10>>

\* Lines the pod log yields, as the bytes of the HTTP response: a structured
\* line, `{}`, `1`, `"x"` (JSON), `x`, `x"`, `\` and an empty line (not
\* JSON), a line with a byte no UTF-8 text holds, and a last line with no
\* newline.
LogLines ==
    { StructuredLine,
      <<123, 125, 10>>, <<49, 10>>, <<34, 120, 34, 10>>,
      <<120, 10>>, <<120, 34, 10>>, <<92, 10>>, <<10>>,
      <<255, 10>>, <<120>> }

\* The character of an ASCII byte.
Chr(b) ==
    CASE b = 10  -> "\n"
      [] b = 32  -> " "
      [] b = 34  -> "\""
      [] b = 44  -> ","
      [] b = 49  -> "1"
      [] b = 58  -> ":"
      [] b = 92  -> "\\"
      [] b = 97  -> "a"
      [] b = 101 -> "e"
      [] b = 103 -> "g"
      [] b = 104 -> "h"
      [] b = 107 -> "k"
      [] b = 109 -> "m"
      [] b = 110 -> "n"
      [] b = 111 -> "o"
      [] b = 112 -> "p"
      [] b = 115 -> "s"
      [] b = 117 -> "u"
      [] b = 119 -> "w"
      [] b = 120 -> "x"
      [] b = 123 -> "{"
      [] b = 125 -> "}"

\* bytes.decode("utf-8"), line 681: the bytes below 128 are one character
\* each; 255 starts no UTF-8 sequence, so decode raises UnicodeDecodeError.
Decodable(line) == \A i \in DOMAIN line : line[i] < 128

Decode(line) == [i \in DOMAIN line |-> Chr(line[i])]

\* str.strip() of whitespace at both ends, as json.loads skips it.
RECURSIVE StripRight(_)
StripRight(text) ==
    IF text # <<>> /\ text[Len(text)] = "\n"
    THEN StripRight(SubSeq(text, 1, Len(text) - 1))
    ELSE text

RECURSIVE StripLeft(_)
StripLeft(text) ==
    IF text # <<>> /\ Head(text) = "\n" THEN StripLeft(Tail(text)) ELSE text

\* The text `{"phase": "unknown", "message": "` and the text `"}`: what
\* json.dumps writes around the message of lines 691-696.
WrapOpen ==
    << "{", "\"", "p", "h", "a", "s", "e", "\"", ":", " ", "\"", "u",
       "n", "k", "n", "o", "w", "n", "\"", ",", " ", "\"", "m", "e",
       "s", "s", "a", "g", "e", "\"", ":", " ", "\"" >>
WrapClose == <<"\"", "}">>

\* The inside of a JSON string: no raw control character or quote, and a
\* backslash only as the start of an escape.
RECURSIVE IsStringBody(_)
IsStringBody(t) ==
    IF t = <<>> THEN TRUE
    ELSE IF Head(t) = "\\"
         THEN /\ Len(t) >= 2
              /\ t[2] \in {"\"", "\\", "n"}
              /\ IsStringBody(Tail(Tail(t)))
         ELSE Head(t) \notin {"\"", "\n"} /\ IsStringBody(Tail(t))

\* A JSON string: quotes around such an inside.
IsString(t) ==
    /\ Len(t) >= 2
    /\ t[1] = "\"" /\ t[Len(t)] = "\""
    /\ IsStringBody(SubSeq(t, 2, Len(t) - 1))

\* A JSON object with the members phase and message, both strings.
IsPhaseMessage(t) ==
    /\ Len(t) >= Len(WrapOpen) + Len(WrapClose)
    /\ SubSeq(t, 1, Len(WrapOpen)) = WrapOpen
    /\ IsString(SubSeq(t, Len(WrapOpen), Len(t) - 1))
    /\ t[Len(t)] = "}"

\* Whether json.loads(text) returns (line 683): an object with phase and
\* message, an empty object, a number or a string.
IsJSON(text) ==
    LET t == StripLeft(StripRight(text)) IN
      \/ IsPhaseMessage(t)
      \/ t = <<"{", "}">>
      \/ t # <<>> /\ \A i \in DOMAIN t : t[i] = "1"
      \/ IsString(t)

\* json.dumps of a str: the escaping of its characters.
RECURSIVE Escape(_)
Escape(text) ==
    IF text = <<>> THEN <<>>
    ELSE LET c == Head(text) IN
           (CASE c = "\"" -> <<"\\", "\"">>
              [] c = "\\" -> <<"\\", "\\">>
              [] c = "\n" -> <<"\\", "n">>
              [] OTHER    -> <<c>>) \o Escape(Tail(text))

\* Lines 691-696: json.dumps({"phase": "unknown", "message": line}).
Wrapped(text) == WrapOpen \o Escape(text) \o WrapClose

\* Lines 682-698: the payload of the LOG_MESSAGE event of a decoded line.
Payload(text) == IF IsJSON(text) THEN text ELSE Wrapped(text)

\* A pod log is opened by stream_logs() of an executor not yet stopped.
InitLogs ==
    /\ logsrc \in SeqsUpTo(LogLines, MaxLines)
    /\ lpc = "iter"
    /\ lstop = FALSE
    /\ logq = <<>>
    /\ lread = <<>>
    /\ pods = {} /\ nextUid = 1 /\ early = FALSE
    /\ pc = [e \in Execs |-> "returned"]
    /\ stop_event = [e \in Execs |-> FALSE]
    /\ pod = [e \in Execs |-> "none"]
    /\ stream = [e \in Execs |-> <<>>]
    /\ emitted = [e \in Execs |-> <<>>]
    /\ terminals = [e \in Execs |-> 0]
    /\ called = [e \in Execs |-> {}]
    /\ builds = <<>> /\ max_age = 0 /\ start_cutoff = 0 /\ live = {}
    /\ gpc = "done" /\ gi = 1 /\ issued = {} /\ answered = {}
    /\ sticky_builds = FALSE /\ repo_url = "r1" /\ apc = "idle"
    /\ image_builder_pods = [kind |-> "PodList", items |-> <<>>]
    /\ affinity = "none"
    /\ push_secret = "" /\ registry_credentials = <<>> /\ memory_limit = 0
    /\ appendix = "" /\ repo2docker_extra_args = <<>>
    /\ cpc = "idle" /\ cmd = <<>>
    /\ wsrc = <<>> /\ wq = <<>> /\ callbacks = <<>> /\ self_q = <<>>

\* As LogKind, with the line reported as a change of the build status.
LogKind_Status == "BUILD_STATUS_CHANGE"

\* Line 698: the kind of the event a line gives, ProgressEvent.Kind.LOG_MESSAGE.
LogKind == "LOG_MESSAGE"

\* Lines 669-698: one turn of the for loop over the log lines.
ReadLine ==
    /\ lpc = "iter"
    /\ logsrc # <<>>
    /\ logsrc' = Tail(logsrc)
    /\ LET line == Head(logsrc) IN
         IF lstop
         THEN /\ lpc' = "returned"
              /\ UNCHANGED <<logq, lread>>
         ELSE /\ lread' = Append(lread, line)
              /\ IF Decodable(line)
                 THEN /\ logq' = Append(logq, [kind |-> LogKind,
                                               payload |-> Payload(Decode(line))])
                      /\ UNCHANGED lpc
                 ELSE /\ lpc' = "raised"
                      /\ UNCHANGED logq
    /\ UNCHANGED lstop
    /\ UNCHANGED <<kvars, gvars, avars, cvars, pvars>>

\* Lines 699-700: the log ended, the else branch of the for loop.
LogEnd ==
    /\ lpc = "iter"
    /\ logsrc = <<>>
    /\ lpc' = "returned"
    /\ UNCHANGED <<logsrc, lstop, logq, lread>>
    /\ UNCHANGED <<kvars, gvars, avars, cvars, pvars>>

\* BuildExecutor.stop, called from another thread while the log streams.
LogStop ==
    /\ lpc = "iter"
    /\ lstop' = StopSet(lstop)
    /\ UNCHANGED <<logsrc, lpc, logq, lread>>
    /\ UNCHANGED <<kvars, gvars, avars, cvars, pvars>>

NextLogs == ReadLine \/ LogEnd \/ LogStop

SpecLogs == InitLogs /\ [][NextLogs]_vars

----------------------------------------------------------------------------
(* KubernetesBuildExecutor.get_affinity                                    *)

\* Most image-builder pods the namespace lists.
MaxItems == 3

\* Nodes that host an image-builder pod, and the repositories built.
Nodes == {"n1", "n2", "n3"}
Repos == {"r1", "r2"}

\* An item of the listed PodList, as far as get_affinity() reads it.
BuilderPods == {[spec |-> [nodeName |-> n]] : n \in Nodes}

\* The score rendezvous_rank gives a bucket for a key: a hash of both.
Score(bucket, key) ==
    LET b == CASE bucket = "n1" -> 1 [] bucket = "n2" -> 2 [] OTHER -> 3
        k == IF key = "r1" THEN 1 ELSE 2
    IN (3 * b + 5 * k) % 7

\* binderhub.utils.rendezvous_rank: the buckets by descending score.
RECURSIVE rendezvous_rank(_, _)
rendezvous_rank(buckets, key) ==
    IF buckets = <<>> THEN <<>>
    ELSE LET top == CHOOSE i \in DOMAIN buckets :
                      \A j \in DOMAIN buckets :
                         \/ Score(buckets[i], key) > Score(buckets[j], key)
                         \/ Score(buckets[i], key) = Score(buckets[j], key) /\ i <= j
             rest == [j \in 1..(Len(buckets) - 1) |->
                        IF j < top THEN buckets[j] ELSE buckets[j + 1]]
         IN <<buckets[top]>> \o rendezvous_rank(rest, key)

\* bool() of a parsed JSON object: a dict is true when it has a key.
Truthy(object) == DOMAIN object # {}

\* Line 391: whether get_affinity() takes the sticky branch.
TakesSticky(sticky, listed) == sticky /\ Truthy(listed)

\* An executor is constructed and get_affinity() is entered; the listing of
\* the image-builder pods has been answered.
InitAffinity ==
    /\ sticky_builds \in BOOLEAN
    /\ repo_url \in Repos
    /\ image_builder_pods \in
         {[kind |-> "PodList", items |-> its] : its \in SeqsUpTo(BuilderPods, MaxItems)}
    /\ apc = "call"
    /\ affinity = "none"
    /\ pods = {} /\ nextUid = 1 /\ early = FALSE
    /\ pc = [e \in Execs |-> "returned"]
    /\ stop_event = [e \in Execs |-> FALSE]
    /\ pod = [e \in Execs |-> "none"]
    /\ stream = [e \in Execs |-> <<>>]
    /\ emitted = [e \in Execs |-> <<>>]
    /\ terminals = [e \in Execs |-> 0]
    /\ called = [e \in Execs |-> {}]
    /\ builds = <<>> /\ max_age = 0 /\ start_cutoff = 0 /\ live = {}
    /\ gpc = "done" /\ gi = 1 /\ issued = {} /\ answered = {}
    /\ logsrc = <<>> /\ lpc = "returned" /\ lstop = FALSE
    /\ logq = <<>> /\ lread = <<>>
    /\ push_secret = "" /\ registry_credentials = <<>> /\ memory_limit = 0
    /\ appendix = "" /\ repo2docker_extra_args = <<>>
    /\ cpc = "idle" /\ cmd = <<>>
    /\ wsrc = <<>> /\ wq = <<>> /\ callbacks = <<>> /\ self_q = <<>>

\* Lines 391-434: the body of get_affinity() after the listing.
GetAffinity ==
    /\ apc = "call"
    /\ IF TakesSticky(sticky_builds, image_builder_pods)
       THEN LET node_names == [i \in DOMAIN image_builder_pods.items |->
                                 image_builder_pods.items[i].spec.nodeName]
                ranked_nodes == rendezvous_rank(node_names, repo_url)
            IN IF ranked_nodes = <<>>
               THEN apc' = "raised" /\ UNCHANGED affinity
               ELSE /\ apc' = "returned"
                    /\ affinity' = [node_affinity |-> ranked_nodes[1]]
       ELSE /\ apc' = "returned"
            /\ affinity' = [pod_anti_affinity |-> "kubernetes.io/hostname"]
    /\ UNCHANGED <<sticky_builds, repo_url, image_builder_pods>>
    /\ UNCHANGED <<kvars, gvars, lvars, cvars, pvars>>

\* The caller reads the term: submit() puts it in the pod it creates.
AffinityUsed ==
    /\ apc \in {"returned", "raised"}
    /\ apc' = "idle"
    /\ UNCHANGED <<sticky_builds, repo_url, image_builder_pods, affinity>>
    /\ UNCHANGED <<kvars, gvars, lvars, cvars, pvars>>

NextAffinity == GetAffinity \/ AffinityUsed

SpecAffinity == InitAffinity /\ [][NextAffinity]_vars

----------------------------------------------------------------------------
(* BuildExecutor.get_cmd                                                   *)

\* Settings the executor is configured with.  A dict is a function from its
\* keys; {} is the function with no key.
PushSecrets == {"", "binder-push-secret"}
RegistryCredentials ==
    {<<>>, [k \in {"registry", "username", "password"} |->
               CASE k = "registry" -> "docker.io"
                 [] k = "username" -> "user"
                 [] k = "password" -> "password"]}
MemoryLimits == {0, 1024}
Appendixes == {"", "USER root"}
ExtraArgs == {<<>>, <<"--debug">>, <<"--debug", "--subdir=a">>}

\* The ref and the image name of the build, lines 74-76.
ref == "HEAD"
image_name == "registry/image:tag"

\* str() of a digit.
Digit(d) ==
    CASE d = 0 -> "0" [] d = 1 -> "1" [] d = 2 -> "2" [] d = 3 -> "3"
      [] d = 4 -> "4" [] d = 5 -> "5" [] d = 6 -> "6" [] d = 7 -> "7"
      [] d = 8 -> "8" [] d = 9 -> "9"

\* str() of a natural number, line 166.
RECURSIVE str(_)
str(n) == IF n < 10 THEN Digit(n) ELSE str(n \div 10) \o Digit(n % 10)

\* Line 161: whether get_r2d_cmd_options() adds --push.
Pushes(secret, credentials) == secret # ""

\* get_r2d_cmd_options(), lines 147-170.
get_r2d_cmd_options ==
    <<"--ref=" \o ref, "--image=" \o image_name, "--no-clean", "--no-run",
      "--json-logs", "--user-name=jovyan", "--user-id=1000">>
    \o (IF appendix # "" THEN <<"--appendix", appendix>> ELSE <<>>)
    \o (IF Pushes(push_secret, registry_credentials) THEN <<"--push">> ELSE <<>>)
    \o (IF memory_limit # 0
        THEN <<"--build-memory-limit", str(memory_limit)>> ELSE <<>>)
    \o repo2docker_extra_args

\* get_cmd(), lines 172-183.
get_cmd == (<<"jupyter-repo2docker">> \o get_r2d_cmd_options) \o <<repo_url>>

\* An executor is configured and submit() is about to build the pod.
InitCmd ==
    /\ push_secret \in PushSecrets
    /\ registry_credentials \in RegistryCredentials
    /\ memory_limit \in MemoryLimits
    /\ appendix \in Appendixes
    /\ repo2docker_extra_args \in ExtraArgs
    /\ repo_url \in Repos
    /\ cpc = "call"
    /\ cmd = <<>>
    /\ pods = {} /\ nextUid = 1 /\ early = FALSE
    /\ pc = [e \in Execs |-> "returned"]
    /\ stop_event = [e \in Execs |-> FALSE]
    /\ pod = [e \in Execs |-> "none"]
    /\ stream = [e \in Execs |-> <<>>]
    /\ emitted = [e \in Execs |-> <<>>]
    /\ terminals = [e \in Execs |-> 0]
    /\ called = [e \in Execs |-> {}]
    /\ builds = <<>> /\ max_age = 0 /\ start_cutoff = 0 /\ live = {}
    /\ gpc = "done" /\ gi = 1 /\ issued = {} /\ answered = {}
    /\ logsrc = <<>> /\ lpc = "returned" /\ lstop = FALSE
    /\ logq = <<>> /\ lread = <<>>
    /\ sticky_builds = FALSE /\ apc = "idle"
    /\ image_builder_pods = [kind |-> "PodList", items |-> <<>>]
    /\ affinity = "none"
    /\ wsrc = <<>> /\ wq = <<>> /\ callbacks = <<>> /\ self_q = <<>>

\* Line 531: submit() takes args=self.get_cmd() for the builder container.
GetCmd ==
    /\ cpc = "call"
    /\ cmd' = get_cmd
    /\ cpc' = "returned"
    /\ UNCHANGED <<push_secret, registry_credentials, memory_limit, appendix,
                   repo2docker_extra_args>>
    /\ UNCHANGED <<kvars, gvars, lvars, avars, pvars>>

\* The pod is built with the arguments.
CmdUsed ==
    /\ cpc = "returned"
    /\ cpc' = "idle"
    /\ UNCHANGED <<push_secret, registry_credentials, memory_limit, appendix,
                   repo2docker_extra_args, cmd>>
    /\ UNCHANGED <<kvars, gvars, lvars, avars, pvars>>

NextCmd == GetCmd \/ CmdUsed

SpecCmd == InitCmd /\ [][NextCmd]_vars

----------------------------------------------------------------------------
(* BuildExecutor.progress                                                  *)

\* The longest watch and the longest pod log looked at.
MaxEvents == 2

\* Events the watch of submit() delivers.
WatchedEvents ==
    { [type |-> "ADDED", phase |-> "Pending"],
      [type |-> "MODIFIED", phase |-> "Running"],
      [type |-> "MODIFIED", phase |-> "Failed"],
      [type |-> "DELETED", phase |-> "Succeeded"] }

\* Lines the pod log yields while submit() watches.
ProgressLines == {StructuredLine, <<120, 10>>, <<255, 10>>}

\* ProgressEvent.__init__, lines 51-53.
ProgressEvent(kind, payload) == [kind |-> kind, payload |-> payload]

\* As add_callback, with the callback put before the ones that wait.
add_callback_First(waiting, event) == <<event>> \o waiting

\* self.main_loop.add_callback(self.q.put, event), line 189: the callback
\* joins the ones that wait for the main loop, behind them.  The call is
\* safe from any thread: it is one step.
add_callback(waiting, event) == Append(waiting, event)

\* progress(), lines 185-189: the callbacks that wait after the call.
progress(kind, payload) == add_callback(callbacks, ProgressEvent(kind, payload))

\* submit() and stream_logs() of one executor start, each in its thread:
\* the watch is open and the pod log is open.
InitProgress ==
    /\ wsrc \in SeqsUpTo(WatchedEvents, MaxEvents)
    /\ logsrc \in SeqsUpTo(ProgressLines, MaxEvents)
    /\ lpc = "iter"
    /\ lstop = FALSE
    /\ wq = <<>> /\ logq = <<>> /\ lread = <<>>
    /\ callbacks = <<>> /\ self_q = <<>>
    /\ pods = {} /\ nextUid = 1 /\ early = FALSE
    /\ pc = [e \in Execs |-> "returned"]
    /\ stop_event = [e \in Execs |-> FALSE]
    /\ pod = [e \in Execs |-> "none"]
    /\ stream = [e \in Execs |-> <<>>]
    /\ emitted = [e \in Execs |-> <<>>]
    /\ terminals = [e \in Execs |-> 0]
    /\ called = [e \in Execs |-> {}]
    /\ builds = <<>> /\ max_age = 0 /\ start_cutoff = 0 /\ live = {}
    /\ gpc = "done" /\ gi = 1 /\ issued = {} /\ answered = {}
    /\ sticky_builds = FALSE /\ repo_url = "r1" /\ apc = "idle"
    /\ image_builder_pods = [kind |-> "PodList", items |-> <<>>]
    /\ affinity = "none"
    /\ push_secret = "" /\ registry_credentials = <<>> /\ memory_limit = 0
    /\ appendix = "" /\ repo2docker_extra_args = <<>>
    /\ cpc = "idle" /\ cmd = <<>>

\* One turn of the for loop of submit(), lines 597-649, for what it hands
\* to progress(); lstop is the stop event of the executor.
WatchProgress ==
    /\ wsrc # <<>>
    /\ LET f == Head(wsrc)
           status == IF f.type = "DELETED" THEN StatusOfDeleted(f.phase)
                     ELSE IF lstop THEN "none" ELSE StatusOfPhase(f.phase)
       IN /\ wsrc' = IF f.type = "DELETED" THEN <<>> ELSE Tail(wsrc)
          /\ IF status # "none"
             THEN /\ wq' = Append(wq, ProgressEvent("BUILD_STATUS_CHANGE", status))
                  /\ callbacks' = progress("BUILD_STATUS_CHANGE", status)
             ELSE UNCHANGED <<wq, callbacks>>
    /\ UNCHANGED self_q
    /\ UNCHANGED <<kvars, gvars, lvars, avars, cvars>>

\* One turn of the for loop of stream_logs(), lines 669-698, progress()
\* included.
LogProgress ==
    /\ lpc = "iter"
    /\ logsrc # <<>>
    /\ logsrc' = Tail(logsrc)
    /\ LET line == Head(logsrc) IN
         IF lstop
         THEN /\ lpc' = "returned"
              /\ UNCHANGED <<logq, lread, callbacks>>
         ELSE /\ lread' = Append(lread, line)
              /\ IF Decodable(line)
                 THEN /\ logq' = Append(logq, ProgressEvent(LogKind,
                                                           Payload(Decode(line))))
                      /\ callbacks' = progress(LogKind, Payload(Decode(line)))
                      /\ UNCHANGED lpc
                 ELSE /\ lpc' = "raised"
                      /\ UNCHANGED <<logq, callbacks>>
    /\ UNCHANGED <<lstop, wsrc, wq, self_q>>
    /\ UNCHANGED <<kvars, gvars, avars, cvars>>

\* The main loop runs the callback that waits longest: self.q.put(event).
RunCallback ==
    /\ callbacks # <<>>
    /\ self_q' = Append(self_q, Head(callbacks))
    /\ callbacks' = Tail(callbacks)
    /\ UNCHANGED <<wsrc, wq>>
    /\ UNCHANGED <<kvars, gvars, lvars, avars, cvars>>

NextProgress == WatchProgress \/ LogProgress \/ RunCallback \/ LogEnd \/ LogStop

SpecProgress == InitProgress /\ [][NextProgress]_vars

\* The executors of one name and, apart from them, one stream_logs() call:
\* every operation that holds a stop event.
NextStop == Next \/ NextLogs

SpecStop == (Init \/ InitLogs) /\ [][NextStop]_vars

\* The scheduling the code relies on: every thread running submit() gets
\* to run, a watch delivers what it has and ends at its timeout, builds
\* come to an end and the cleaner keeps sweeping.  No API call is bound
\* to fail, and nobody is bound to call stop().
Fairness ==
    /\ \A e \in Execs :
         /\ WF_vars(Create(e))
         /\ WF_vars(LoopCheck(e))
         /\ WF_vars(Dispatch(e))
         /\ WF_vars(WatchTimeout(e))
    /\ WF_vars(PodPhase)
    /\ WF_vars(CleanerSweep)

FairSpec == Init /\ [][Next]_vars /\ Fairness

\* The executors when stop() is called on the first of them only; the
\* second is the other party that shares the name.
NextOneStop ==
    \/ \E e \in Execs :
         \/ Create(e)
         \/ LoopCheck(e)
         \/ Dispatch(e)
         \/ WatchTimeout(e)
         \/ WatchError(e)
    \/ Stop("e1")
    \/ PodPhase
    \/ CleanerSweep

FairOneStop == Init /\ [][NextOneStop]_vars /\ Fairness

\* The executors when nobody calls stop() and the timeout of a watch may
\* fall at any moment, also between two events of the job.
NextExpiry ==
    \/ \E e \in Execs :
         \/ Create(e)
         \/ LoopCheck(e)
         \/ Dispatch(e)
         \/ WatchTimeout(e)
         \/ WatchExpire(e)
         \/ WatchEnd(e)
         \/ WatchError(e)
    \/ PodPhase
    \/ CleanerSweep

\* As Fairness; a watch the API server ended is read to its end.  The
\* server is not bound to end a watch while events are unread.
FairExpiry ==
    Init /\ [][NextExpiry]_vars /\ Fairness /\ \A e \in Execs : WF_vars(WatchEnd(e))

----------------------------------------------------------------------------
(* Claims about submit()                                                   *)

Ended(e) == pc[e] \in {"returned", "raised"}

CallsOf(e, op) == {c \in called[e] : c.op = op}

\* C1: one submit() hands at most one terminal status (BUILT or FAILED) to
\* the progress sink, whatever the watch delivers.
C1_AtMostOneTerminal == \A e \in Execs : terminals[e] <= 1

\* C2: whenever submit() emits a terminal status, its cleanup() (the delete
\* call) has been invoked before that emission.
C2_CleanupBeforeTerminal ==
    [][\A e \in Execs :
         terminals'[e] > terminals[e] => CallsOf(e, "delete") # {}]_vars

\* C3: once the stop event of an executor is set, its submit() emits no
\* terminal status any more, on DELETED events included.
C3_NoTerminalAfterStop ==
    [][\A e \in Execs : stop_event[e] => terminals'[e] = terminals[e]]_vars

\* C4: once the stop event of an executor is set, its submit() issues no
\* delete of the job any more.
C4_NoDeleteAfterStop ==
    [][\A e \in Execs :
         stop_event[e] => CallsOf(e, "delete")' = CallsOf(e, "delete")]_vars

\* C5: a submit() whose stop event is never set ends, with a terminal status
\* emitted or an error raised, also when the job is deleted between two of
\* its watches.
C5_SubmitEnds ==
    \A e \in Execs :
        ([]~stop_event[e]) =>
            <>(pc[e] = "raised" \/ (pc[e] = "returned" /\ terminals[e] > 0))

\* The statuses e reported for what happened to the job after it was
\* created (PENDING is the status of the job as created).
Observed(e) == SelectSeq(emitted[e], LAMBDA st : st # PENDING)

\* C6: two submit() calls with the same name leave at most one job under
\* the name, and when the job changed only after both had submitted, both
\* report the same sequence of statuses for it.
C6_OneJobSameStatuses ==
    /\ Cardinality(pods) <= 1
    /\ (/\ ~early
        /\ \A e \in Execs : pc[e] = "returned" /\ ~stop_event[e])
       => \A e1, e2 \in Execs : Observed(e1) = Observed(e2)

\* C7: a create answered 409 is no error, submit() goes on to the watch
\* loop as after 201; any other create error makes submit() raise at once,
\* with no watch opened, no progress event and no delete.
C7_CreateOutcome ==
    [][\A e \in Execs :
         /\ (pc[e] = "create" /\ pc'[e] # "create") =>
              \E c \in CallsOf(e, "create")' :
                 /\ called'[e] = {c}
                 /\ emitted'[e] = <<>> /\ terminals'[e] = 0
                 /\ stream'[e] = <<>> /\ pod'[e] = "none"
                 /\ IF c.status = 201 \/ c.status = 409
                    THEN pc'[e] = "loop"
                    ELSE pc'[e] = "raised" /\ pods' = pods
         /\ pc[e] = "raised" =>
              /\ pc'[e] = "raised"
              /\ called'[e] = called[e]
              /\ emitted'[e] = emitted[e]]_vars

\* A submit() that got 409 is watching the existing job.
C7_Witness ==
    \E e \in Execs :
        /\ [op |-> "create", status |-> 409] \in called[e]
        /\ pc[e] = "watch"
        /\ stream[e] # <<>>

\* C8: cleanup() finding the job gone (404) returns without raising and
\* changes nothing in the cluster, also when several executors of one name
\* clean up one after the other; any other delete error is raised.
C8_CleanupTolerant ==
    [][\A e \in Execs :
         \A c \in CallsOf(e, "delete")' \ CallsOf(e, "delete") :
            /\ c.status = 404 => pods = {} /\ pods' = pods /\ pc'[e] # "raised"
            /\ c.status = 200 => pods' = {} /\ pc'[e] # "raised"
            /\ c.status \notin {200, 404} => pods' = pods /\ pc'[e] = "raised"]_vars

\* Two executors cleaned up in turn: the first deleted the job, the second
\* got 404 and went on.
C8_Witness ==
    \E e1, e2 \in Execs :
        /\ [op |-> "delete", status |-> 200] \in called[e1]
        /\ [op |-> "delete", status |-> 404] \in called[e2]
        /\ pc[e2] \in {"watch", "returned"}

\* C11: the stop event is one-shot and monotonic: once set it stays set
\* through every step of submit(), cleanup() and stream_logs(), and a stop()
\* on a set event changes nothing.
C11_StopMonotonic ==
    [][/\ \A e \in Execs :
            /\ stop_event[e] => stop_event'[e]
            /\ (stop_event[e] /\ Stop(e)) => UNCHANGED vars
       /\ lstop => lstop'
       /\ (lstop /\ LogStop) => UNCHANGED vars]_vars

\* submit() of a stopped executor went on to its stop check and returned
\* with no terminal status, or stream_logs() read a line after stop().
C11_Witness ==
    \/ \E e \in Execs :
         stop_event[e] /\ pc[e] = "returned" /\ terminals[e] = 0 /\ pods # {}
    \/ lstop /\ lpc = "returned" /\ logsrc # <<>>

\* C12: an error of the watch makes submit() raise: the watch is stopped,
\* nothing is emitted for it and nothing follows it; a new watch is opened
\* only from the loop head with the stop flag unset, which is reached from
\* the create or from a watch that ended at its timeout, and never after a
\* DELETED event or an error.
C12_WatchErrorRaises ==
    [][\A e \in Execs :
         /\ (pc[e] = "watch" /\ pc'[e] # "watch"
                /\ called'[e] = called[e] /\ terminals'[e] = terminals[e])
              => \/ pc'[e] = "loop" /\ stream[e] \in {<<>>, <<END>>}
                 \/ pc'[e] = "raised" /\ stream'[e] = <<>>
         /\ (pc[e] = "watch" /\ pc'[e] = "raised" /\ called'[e] = called[e])
              => /\ emitted'[e] = emitted[e]
                 /\ terminals'[e] = terminals[e]
                 /\ stream'[e] = <<>>
                 /\ pods' = pods
         /\ pc[e] \in {"raised", "returned"}
              => /\ pc'[e] = pc[e]
                 /\ called'[e] = called[e]
                 /\ emitted'[e] = emitted[e]
                 /\ stream'[e] = <<>>
         /\ (pc'[e] = "watch" /\ pc[e] # "watch")
              => pc[e] = "loop" /\ ~stop_event[e]
         /\ (pc'[e] = "loop" /\ pc[e] # "loop")
              => \/ pc[e] = "create"
                 \/ /\ pc[e] = "watch" /\ stream[e] \in {<<>>, <<END>>}
                    /\ emitted'[e] = emitted[e]]_vars

\* A submit() that had opened a watch raised with every API call answered
\* without error and a status already reported: the watch itself failed.
C12_Witness ==
    \E e \in Execs :
        /\ pc[e] = "raised"
        /\ [op |-> "watch", status |-> 200] \in called[e]
        /\ \A c \in called[e] : c.status # 500
        /\ emitted[e] # <<>>

\* The last status handed to progress() by e, "none" before the first.
LastEmitted(e) == IF emitted[e] = <<>> THEN "none" ELSE emitted[e][Len(emitted[e])]

\* C14: on a DELETED event submit() emits BUILT when the phase last seen of
\* the job (which is the phase the event carries) is Succeeded and FAILED
\* for every other phase, then returns and handles no event any more; BUILT
\* is emitted on no other event.
C14_DeletedOutcome ==
    [][\A e \in Execs :
         /\ (pc[e] = "watch" /\ pc'[e] = "returned") =>
              LET f == Head(stream[e]) IN
                /\ f.type = "DELETED"
                /\ pod[e] = f.phase
                /\ terminals'[e] = terminals[e] + 1
                /\ LastEmitted(e)' = (IF pod[e] = "Succeeded" THEN BUILT ELSE FAILED)
                /\ stream'[e] = <<>>
                /\ called'[e] = called[e]
         /\ (pc[e] = "watch" /\ stream[e] # <<>> /\ Head(stream[e]).type = "DELETED")
              => \/ pc'[e] \in {"returned", "raised"}
                 \/ (emitted'[e] = emitted[e] /\ pod'[e] = pod[e]
                       /\ called'[e] = called[e] /\ Head(stream'[e]) = Head(stream[e]))
         /\ (terminals'[e] > terminals[e] /\ LastEmitted(e)' = BUILT) =>
              /\ pc[e] = "watch" /\ pc'[e] = "returned"
              /\ Head(stream[e]) = [type |-> "DELETED", phase |-> "Succeeded"]
         /\ pc[e] = "returned" =>
              /\ pc'[e] = "returned"
              /\ terminals'[e] = terminals[e]
              /\ pod'[e] = pod[e]]_vars

\* A submit() returned with FAILED for a job deleted in a phase the code
\* does not know, and another with BUILT for a job deleted after it succeeded.
C14_Witness ==
    \E e1, e2 \in Execs :
        /\ pc[e1] = "returned" /\ pod[e1] = "Evicted" /\ LastEmitted(e1) = FAILED
        /\ pc[e2] = "returned" /\ pod[e2] = "Succeeded" /\ LastEmitted(e2) = BUILT

\* C15: a non-DELETED event dispatched with the stop flag unset replaces
\* the cached pod by the event's and emits the status of its phase: PENDING
\* for Pending, RUNNING for Running, FAILED for Failed, UNKNOWN for Unknown,
\* and nothing for Succeeded or a phase the code does not know.
C15_PhaseStatus ==
    [][\A e \in Execs :
         (/\ pc[e] = "watch" /\ stream[e] # <<>>
          /\ Head(stream[e]).type # "DELETED"
          /\ ~stop_event[e]
          /\ Dispatch(e))
         => LET phase == Head(stream[e]).phase
                Emits(status) ==
                    /\ LastEmitted(e)' = status
                    /\ \/ emitted'[e] = Append(emitted[e], status)
                       \/ emitted'[e] = emitted[e] /\ LastEmitted(e) = status
                    /\ terminals'[e] =
                         terminals[e] + (IF status = FAILED THEN 1 ELSE 0)
            IN /\ pod'[e] = phase
               /\ CASE phase = "Pending" -> Emits(PENDING)
                    [] phase = "Running" -> Emits(RUNNING)
                    [] phase = "Failed"  -> Emits(FAILED)
                    [] phase = "Unknown" -> Emits(UNKNOWN)
                    [] OTHER -> /\ emitted'[e] = emitted[e]
                                /\ terminals'[e] = terminals[e]]_vars

\* An unstopped submit() reported PENDING, UNKNOWN and FAILED as the job
\* went through these phases, and another saw the job Evicted, a phase the
\* code does not know, after RUNNING and reported nothing for it.
C15_Witness ==
    \E e1, e2 \in Execs :
        /\ ~stop_event[e1] /\ emitted[e1] = <<PENDING, UNKNOWN, FAILED>>
        /\ pod[e1] = "Failed"
        /\ ~stop_event[e2] /\ pod[e2] = "Evicted" /\ LastEmitted(e2) = RUNNING

\* C16: a submit() never stopped that sees the job Succeeded ends, when no
\* API call fails, with BUILT emitted and submit() returned.
C16_SucceededEndsBuilt ==
    \A e \in Execs :
        ([](~stop_event[e] /\ \A x \in Execs : pc[x] # "raised"))
          => ((pod[e] = "Succeeded") ~> (pc[e] = "returned" /\ LastEmitted(e) = BUILT))

\* C17: once the stop flag of an executor is set its submit() opens no new
\* watch, and it ends: when the watch that is open has ended, at the latest.
C17_StopTerminates ==
    /\ [][\A e \in Execs :
            (stop_event[e] /\ pc[e] # "watch") =>
                (pc'[e] # "watch" /\ CallsOf(e, "watch")' = CallsOf(e, "watch"))]_vars
    /\ \A e \in Execs : stop_event[e] ~> Ended(e)

\* A stopped submit() left its watch at the timeout and returned at the
\* stop check with the job still there and no terminal status emitted.
C17_Witness ==
    \E e \in Execs :
        /\ stop_event[e] /\ pc[e] = "returned"
        /\ CallsOf(e, "watch") # {} /\ CallsOf(e, "delete") = {}
        /\ terminals[e] = 0 /\ pod[e] = "Running" /\ pods # {}

\* C18: a submit() calls create once, before its watch loop, and never
\* again: not after the job failed, was deleted or a watch timed out; a job
\* appears in the cluster only by that one call.
C18_CreateOnce ==
    [][\A e \in Execs :
         /\ pc[e] # "create" =>
              /\ pc'[e] # "create"
              /\ CallsOf(e, "create")' = CallsOf(e, "create")
              /\ Cardinality(CallsOf(e, "create")) = 1
         /\ pc[e] = "create" =>
              /\ called[e] = {}
              /\ pc'[e] = "create" => called'[e] = {}
         /\ nextUid' # nextUid =>
              \E x \in Execs :
                 /\ pc[x] = "create" /\ pc'[x] = "loop"
                 /\ pods = {} /\ Cardinality(pods') = 1]_vars

\* A submit() saw its job Running, the job was deleted between two of its
\* watches, and it watches again with nothing created in its place.
C18_Witness ==
    \E e \in Execs :
        /\ pc[e] = "watch" /\ stream[e] = <<>> /\ pod[e] = "Running"
        /\ pods = {} /\ nextUid = 2
        /\ CallsOf(e, "create") = {[op |-> "create", status |-> 201]}

\* C24: one submit() never both emits a terminal status and raises: when it
\* has raised, from create, from the watch or from the delete of cleanup(),
\* it has handed no BUILT and no FAILED to progress().
C24_NoTerminalThenRaise ==
    \A e \in Execs : pc[e] = "raised" => terminals[e] = 0

\* C25: the delete of an executor's cleanup() only ever removes a job in
\* phase Succeeded or Failed, under every interleaving of the executors of
\* one name, the cleaner and a later create under the same name.
C25_DeletesOnlyFinished ==
    [][\A e \in Execs :
         \A c \in CallsOf(e, "delete")' \ CallsOf(e, "delete") :
            c.status = 200 =>
                \A p \in pods : p.phase \in {"Succeeded", "Failed"}]_vars

----------------------------------------------------------------------------
(* Claims about KubernetesCleaner.cleanup                                  *)

\* The listed pods the claim names: phase Failed, Succeeded or Evicted, or
\* max_age positive, a start time set and older than now - max_age.
C9_Named ==
    {i \in DOMAIN builds :
        \/ builds[i].phase \in {"Failed", "Succeeded", "Evicted"}
        \/ /\ max_age > 0
           /\ builds[i].start_time # <<>>
           /\ builds[i].start_time[1] < start_cutoff}

\* C9: one sweep issues a delete for exactly the listed pods that are
\* Failed, Succeeded or Evicted, or that started before now - max_age with
\* max_age positive; no other pod is deleted.
C9_SweepDeletesExactly ==
    /\ gpc \in {"loop", "done", "raised"} => issued \subseteq C9_Named
    /\ gpc = "done" => issued = C9_Named

\* The listed pods the sweep selects for deletion.
Selected ==
    {i \in DOMAIN builds :
        ShouldDelete(builds[i].phase, max_age, builds[i].start_time, start_cutoff)}

\* C21: in a sweep a delete answered 404 is swallowed and the sweep goes on
\* to the next listed pod, so that a sweep that ends has issued a delete for
\* every selected pod and none of them is left; any other delete error, and
\* a list error, is raised and ends the sweep at that pod.
C21_SweepErrors ==
    /\ [](gpc = "done" => (issued = Selected /\ issued \cap live = {}))
    /\ [](gpc = "raised" =>
            /\ \E r \in answered : r.status \notin {200, 404}
            /\ \A r \in answered :
                  r.status \notin {200, 404} =>
                    /\ r.i \in issued \cup {0}
                    /\ \A j \in issued : j <= r.i)
    /\ [][/\ \A r \in answered' \ answered :
               /\ r.i = (IF gpc = "list" THEN 0 ELSE gi)
               /\ r.status = 404 =>
                    /\ gpc' = "loop" /\ gi' = gi + 1
                    /\ live' = live /\ gi \notin live
               /\ r.status = 200 =>
                    /\ gpc' = "loop" /\ live' = live \ {r.i}
               /\ r.status \notin {200, 404} =>
                    /\ gpc' = "raised" /\ gi' = gi /\ live' = live
          /\ gpc = "raised" =>
               /\ gpc' = "raised" /\ issued' = issued
               /\ answered' = answered /\ live' = live]_vars

\* A sweep ended after its first delete was answered 404 and its second 200.
C21_Witness ==
    /\ gpc = "done"
    /\ [i |-> 1, status |-> 404] \in answered
    /\ [i |-> 2, status |-> 200] \in answered

----------------------------------------------------------------------------
(* Claims about get_cmd                                                    *)

\* C23: the arguments get_cmd() returns hold --push if and only if push
\* credentials are configured, a static push secret or dynamic registry
\* credentials; with registry credentials and an empty push secret the flag
\* is there.
C23_PushIffCredentials ==
    cpc = "returned" =>
        ((\E i \in DOMAIN cmd : cmd[i] = "--push")
            <=> (push_secret # "" \/ Truthy(registry_credentials)))

----------------------------------------------------------------------------
(* Claims about progress                                                   *)

\* s is the beginning of t.
IsPrefix(s, t) == Len(s) <= Len(t) /\ SubSeq(t, 1, Len(s)) = s

\* The events of one kind among `events`, in their order.
OfKind(events, kind) == SelectSeq(events, LAMBDA event : event.kind = kind)

\* C22: the events reach self.q in the order their worker emitted them:
\* the status events of submit() in the order of the watch, the log events
\* of stream_logs() in the order of the log; the events of the two workers
\* may interleave, the order of each worker is kept and no event is lost.
C22_OrderKept ==
    /\ IsPrefix(OfKind(self_q, "BUILD_STATUS_CHANGE"), wq)
    /\ IsPrefix(OfKind(self_q, LogKind), logq)
    /\ Len(self_q) + Len(callbacks) = Len(wq) + Len(logq)

\* Two status events and two log events reached self.q, interleaved.
C22_Witness ==
    /\ callbacks = <<>>
    /\ Len(self_q) = 4
    /\ self_q[1].kind = LogKind /\ self_q[2].kind = "BUILD_STATUS_CHANGE"
    /\ self_q[3].kind = LogKind /\ self_q[4].kind = "BUILD_STATUS_CHANGE"
    /\ self_q[2] # self_q[4]
    /\ self_q[1] # self_q[3]

----------------------------------------------------------------------------
(* Claims about stream_logs                                                *)

\* json.loads of the message string inside a wrapped payload: the inverse
\* of the escaping.
RECURSIVE Unescape(_)
Unescape(text) ==
    IF text = <<>> THEN <<>>
    ELSE IF Head(text) = "\\" /\ Len(text) >= 2
         THEN <<(IF text[2] = "n" THEN "\n" ELSE text[2])>> \o Unescape(Tail(Tail(text)))
         ELSE <<Head(text)>> \o Unescape(Tail(text))

\* The message of a payload that is the object {"phase": "unknown",
\* "message": m}; <<"none">> when the payload is no such object.
MessageOf(payload) ==
    IF /\ Len(payload) >= Len(WrapOpen) + Len(WrapClose)
       /\ SubSeq(payload, 1, Len(WrapOpen)) = WrapOpen
       /\ SubSeq(payload, Len(payload) - 1, Len(payload)) = WrapClose
    THEN Unescape(SubSeq(payload, Len(WrapOpen) + 1, Len(payload) - 2))
    ELSE <<"none">>

\* The text of a line as the claim speaks of it: its characters.
TextOf(line) == [i \in DOMAIN line |-> IF line[i] < 128 THEN Chr(line[i]) ELSE "?"]

\* C10: every line stream_logs() read with the stop flag not set gave exactly
\* one LOG_MESSAGE event, in the order read: a JSON line unchanged, any other
\* line as the object {"phase": "unknown", "message": <the line>}.
C10_EveryLineForwarded ==
    /\ Len(logq) = Len(lread)
    /\ \A i \in DOMAIN logq :
         /\ logq[i].kind = "LOG_MESSAGE"
         /\ Decodable(lread[i]) =>
              IF IsJSON(TextOf(lread[i]))
              THEN logq[i].payload = TextOf(lread[i])
              ELSE MessageOf(logq[i].payload) = TextOf(lread[i])

----------------------------------------------------------------------------
(* Claims about get_affinity                                               *)

\* C13: get_affinity() returns the node-affinity term of the top-ranked node
\* exactly when sticky_builds is set and an image-builder pod is listed; with
\* sticky_builds unset or no pod listed it returns the pod-anti-affinity term
\* and does not fail.
C13_AffinityChoice ==
    apc \in {"returned", "raised"} =>
        IF sticky_builds /\ image_builder_pods.items # <<>>
        THEN /\ apc = "returned"
             /\ DOMAIN affinity = {"node_affinity"}
             /\ \E i \in DOMAIN image_builder_pods.items :
                  /\ affinity.node_affinity = image_builder_pods.items[i].spec.nodeName
                  /\ \A j \in DOMAIN image_builder_pods.items :
                       Score(affinity.node_affinity, repo_url)
                         >= Score(image_builder_pods.items[j].spec.nodeName, repo_url)
        ELSE /\ apc = "returned"
             /\ DOMAIN affinity = {"pod_anti_affinity"}

\* C19: every LOG_MESSAGE payload stream_logs() emits is a JSON object with
\* a phase and a message; a line that is JSON but no such object, a bare
\* number or string for one, is wrapped like a line that is no JSON.
C19_PayloadIsObject ==
    \A i \in DOMAIN logq :
        /\ IsPhaseMessage(StripLeft(StripRight(logq[i].payload)))
        /\ ~IsPhaseMessage(StripLeft(StripRight(TextOf(lread[i]))))
             => MessageOf(logq[i].payload) = TextOf(lread[i])

\* C20: stream_logs() emits LOG_MESSAGE events only, one for a line it
\* read and nothing else; when the log ends it returns with nothing emitted
\* for the end, and when it reads a line with the stop flag set it returns
\* with neither that line nor a later one emitted.
C20_OnlyLogMessages ==
    /\ [](\A i \in DOMAIN logq : logq[i].kind = "LOG_MESSAGE")
    /\ [][/\ logq' # logq =>
               /\ lpc = "iter" /\ ~lstop /\ logsrc # <<>>
               /\ logsrc' = Tail(logsrc)
               /\ Len(logq') = Len(logq) + 1
               /\ SubSeq(logq', 1, Len(logq)) = logq
          /\ (lpc = "iter" /\ lstop /\ logsrc' # logsrc) =>
               lpc' = "returned" /\ logq' = logq
          /\ (lpc = "iter" /\ logsrc = <<>> /\ lpc' # "iter") =>
               lpc' = "returned" /\ logq' = logq
          /\ lpc # "iter" =>
               lpc' = lpc /\ logq' = logq /\ logsrc' = logsrc]_vars

\* stream_logs() emitted a line, then read the next with the stop flag set
\* and returned with a line still unread.
C20_Witness ==
    /\ lstop /\ lpc = "returned"
    /\ Len(logq) = 1 /\ Len(lread) = 1 /\ logsrc # <<>>

====
